---- MODULE Spec2Model ----
(***************************************************************************)
(* Weather ETL pipeline (GAKIZAB/ETL-and-Pipeline).                        *)
(*                                                                         *)
(* Two state machines, one per stage of the pipeline's core:               *)
(*   Spec          - weather_etl/extract.py: extract_all driving           *)
(*                   fetch_weather (bounded retries with back-off);        *)
(*   SpecTransform - weather_etl/transform.py: transform driving           *)
(*                   _parse_single, then the DataFrame construction and    *)
(*                   the numeric coercions.                                *)
(* The variables of the stage a specification does not run keep their      *)
(* initial value.                                                          *)
(***************************************************************************)
EXTENDS Integers, Sequences, FiniteSets, TLC

VARIABLES
    cities,          \* extract_all: the input list of cities (their names)
    max_retries,     \* api_config["max_retries"]
    backoff_factor,  \* api_config["backoff_factor"]
    pc,              \* control point of extract_all / fetch_weather
    idx,             \* extract_all: number of cities whose fetch is over
    attempt,         \* fetch_weather: loop variable of range(1, max_retries + 1)
    history,         \* what requests.get / raise_for_status / json did on each attempt for the current city
    sleeps,          \* the time.sleep(wait) calls made for the current city
    ret,             \* return value of the current fetch_weather call
    fetched,         \* return value of fetch_weather for every city fetched so far
    results,         \* extract_all: results
    exc,             \* exception travelling out of extract_all, "none" if none
    raw_records,     \* transform: the input list of {city, raw} records
    t_pc,            \* control point of transform
    t_i,             \* transform: number of records the loop has consumed
    rows,            \* transform: rows
    df,              \* the DataFrame transform returns
    t_exc,           \* exception travelling out of transform, "none" if none
    clock,           \* the wall clock read by datetime.now(timezone.utc)
    files,           \* data_dir: the CSV file under each file name
    db,              \* the SQLite database file at db_path, None while there is none
    l_clock,         \* the wall clock of the Load stage, in seconds
    l_calls,         \* the calls of load_to_csv and load_to_sqlite made so far
    p_pc,            \* run_pipeline: where the run stands
    p_stages,        \* run_pipeline: the stage functions called so far, in order
    p_exc,           \* run_pipeline: the exception that left the run, "none" if none
    p_before,        \* the files and the database as the run found them
    s_pc,            \* run_scheduled: where the scheduler stands
    s_interval,      \* run_scheduled: the interval between two runs
    s_timer,         \* the time left until the scheduled job is due
    s_runs,          \* the outcomes of the runs of run_pipeline made so far
    g_handlers,      \* logging.getLogger("weather_etl").handlers
    g_level,         \* the level of the weather_etl logger
    g_dirs,          \* the log directories that exist
    g_calls,         \* the calls of setup_logging made so far
    g_msgs,          \* the number of messages logged so far
    g_out            \* what the handlers wrote: destination and message

evars == <<cities, max_retries, backoff_factor, pc, idx, attempt, history,
           sleeps, ret, fetched, results, exc>>

tvars == <<raw_records, t_pc, t_i, rows, df, t_exc, clock>>

lvars == <<files, db, l_clock, l_calls>>

pvars == <<p_pc, p_stages, p_exc, p_before>>

svars == <<s_pc, s_interval, s_timer, s_runs>>

gvars == <<g_handlers, g_level, g_dirs, g_calls, g_msgs, g_out>>

vars == <<evars, tvars, lvars, pvars, svars, gvars>>

(***************************************************************************)
(* Bounds of the model.                                                    *)
(***************************************************************************)
MaxCities == 2
MaxRetries == 3
MaxBatch == 2
MaxRows == 1
MaxLoads == 2
MaxClock == 1
MaxRuns == 2
MaxInterval == 2
MaxSetups == 2
MaxMessages == 2

CityNames == {"Paris", "Bad"}
BackoffFactors == {1, 2}

RECURSIVE SeqsUpTo(_, _)
SeqsUpTo(S, n) ==
    IF n = 0 THEN {<<>>}
    ELSE LET shorter == SeqsUpTo(S, n - 1)
         IN  shorter \cup {Append(s, x) : s \in {t \in shorter : Len(t) = n - 1}, x \in S}

(***************************************************************************)
(* Python values.                                                          *)
(***************************************************************************)
None == [kind |-> "None"]

\* The parsed body of a 200 response: what response.json() returns.  A body
\* that is the JSON text null parses to None.
Bodies == {"object", "null"}

Json(city, k, body) ==
    IF body = "null" THEN None
    ELSE [kind |-> "json", city |-> city, attempt |-> k]

(***************************************************************************)
(* Logging: setup_logging of weather_etl/utils.py and the logger calls.    *)
(***************************************************************************)
LogDirs == {"logs", "other_logs"}

\* The directories of the process: those of the logs and data_dir, which
\* holds the CSV files and the database.
Directories == LogDirs \cup {"data"}

LogLevels == {"DEBUG", "INFO"}

\* The order of the levels; a logger whose level is not set takes WARNING
\* from the root logger.
Rank(level) ==
    CASE level = "DEBUG"   -> 1
      [] level = "INFO"    -> 2
      [] level = "WARNING" -> 3
      [] level = "ERROR"   -> 4
      [] level = "NOTSET"  -> 3

\* RotatingFileHandler(filename=log_dir / "weather_etl.log", ...)
FileHandler(log_dir, log_level) ==
    [type |-> "file", dest |-> log_dir \o "/weather_etl.log", level |-> log_level]

\* logging.StreamHandler(sys.stdout)
ConsoleHandler(log_level) == [type |-> "console", dest |-> "stdout", level |-> log_level]

\* The weather_etl logger and what its handlers wrote, as one value.
Logger ==
    [handlers |-> g_handlers, level |-> g_level, dirs |-> g_dirs,
     calls |-> g_calls, msgs |-> g_msgs, out |-> g_out]

\* The step leaves the logger as L.
LoggerBecomes(L) ==
    /\ g_handlers' = L.handlers
    /\ g_level' = L.level
    /\ g_dirs' = L.dirs
    /\ g_calls' = L.calls
    /\ g_msgs' = L.msgs
    /\ g_out' = L.out

\* As setup_logging, without the test of logger.handlers.
setup_logging_NoHandlersCheck(L, log_dir, log_level) ==
    [L EXCEPT !.dirs = @ \cup {log_dir},
              !.level = log_level,
              !.handlers = @ \o <<FileHandler(log_dir, log_level), ConsoleHandler(log_level)>>,
              !.calls = Append(@, [log_dir |-> log_dir, log_level |-> log_level])]

\* setup_logging(log_dir, log_level) on the logger L
setup_logging(L, log_dir, log_level) ==
    [L EXCEPT !.dirs = @ \cup {log_dir},
              !.level = log_level,
              !.handlers = IF @ # <<>> THEN @
                           ELSE <<FileHandler(log_dir, log_level), ConsoleHandler(log_level)>>,
              !.calls = Append(@, [log_dir |-> log_dir, log_level |-> log_level])]

\* logger.log(level, ...) on weather_etl or one of its children: every
\* handler whose level lets the message through writes it once.
Emit(L, level) ==
    LET passing == SelectSeq(L.handlers, LAMBDA h : Rank(level) >= Rank(h.level))
    IN  [L EXCEPT !.msgs = @ + 1,
                  !.out = IF Rank(level) >= Rank(L.level)
                          THEN @ \o [i \in DOMAIN passing |->
                                       [dest |-> passing[i].dest, msg |-> L.msgs + 1,
                                        after |-> Len(L.calls)]]
                          ELSE @]

\* The logger calls of one step, in order.
RECURSIVE EmitAll(_, _)
EmitAll(L, levels) ==
    IF levels = <<>> THEN L ELSE EmitAll(Emit(L, Head(levels)), Tail(levels))

Logged(levels) == LoggerBecomes(EmitAll(Logger, levels))

\* Path(path).mkdir(parents=True, exist_ok=True)
MakeDirs(L, path) == [L EXCEPT !.dirs = @ \cup {path}]

\* A step that makes the directory path, then logs.
LoggedIn(path, levels) == LoggerBecomes(EmitAll(MakeDirs(Logger, path), levels))

InitLogging ==
    /\ g_handlers = <<>>
    /\ g_level = "NOTSET"
    /\ g_dirs = {}
    /\ g_calls = <<>>
    /\ g_msgs = 0
    /\ g_out = <<>>

\* A call of setup_logging (run_pipeline and run_scheduled both make one).
SetupLogging ==
    /\ Len(g_calls) < MaxSetups
    /\ \E log_dir \in LogDirs, log_level \in LogLevels :
          LoggerBecomes(setup_logging(Logger, log_dir, log_level))
    /\ UNCHANGED <<evars, tvars, lvars, pvars, svars>>

\* ensure_directory(path)
EnsureDirectory ==
    /\ \E path \in Directories : LoggerBecomes(MakeDirs(Logger, path))
    /\ UNCHANGED <<evars, tvars, lvars, pvars, svars>>

\* One logger call, at any level.
LogMessage ==
    /\ g_msgs < MaxMessages
    /\ \E level \in LogLevels : Logged(<<level>>)
    /\ UNCHANGED <<evars, tvars, lvars, pvars, svars>>

(***************************************************************************)
(* What one pass through the try block can do: return the body, or raise   *)
(* one of the requests exceptions.  The base classes of each exception     *)
(* class, itself included.                                                 *)
(***************************************************************************)
Exceptions == {"Timeout", "HTTPError", "ConnectionError", "RequestException", "JSONDecodeError"}

Bases(e) ==
    CASE e = "Timeout"          -> {"Timeout", "RequestException"}
      [] e = "HTTPError"        -> {"HTTPError", "RequestException"}
      [] e = "ConnectionError"  -> {"ConnectionError", "RequestException"}
      [] e = "JSONDecodeError"  -> {"JSONDecodeError", "InvalidJSONError", "RequestException", "ValueError"}
      [] e = "RequestException" -> {"RequestException"}

\* Variant: the last clause retries like the others.
ExceptClauses_RetryAll ==
    << [class |-> "Timeout",          does |-> "retry"],
       [class |-> "HTTPError",        does |-> "retry"],
       [class |-> "ConnectionError",  does |-> "retry"],
       [class |-> "RequestException", does |-> "retry"] >>

\* Variant: no clause for RequestException.
ExceptClauses_NoCatchAll ==
    << [class |-> "Timeout",          does |-> "retry"],
       [class |-> "HTTPError",        does |-> "retry"],
       [class |-> "ConnectionError",  does |-> "retry"] >>

\* The except clauses of fetch_weather, in order: the class caught and what
\* the clause does ("retry": fall through to the back-off; "return_none").
ExceptClauses ==
    << [class |-> "Timeout",          does |-> "retry"],
       [class |-> "HTTPError",        does |-> "retry"],
       [class |-> "ConnectionError",  does |-> "retry"],
       [class |-> "RequestException", does |-> "return_none"] >>

\* What the try statement does with exception e: the first clause whose class
\* is a base of e; with no such clause the exception propagates.
Handler(e) ==
    LET hits == {i \in 1..Len(ExceptClauses) : ExceptClauses[i].class \in Bases(e)}
    IN  IF hits = {} THEN "propagate"
        ELSE ExceptClauses[CHOOSE i \in hits : \A j \in hits : i <= j].does

RECURSIVE Pow(_, _)
Pow(b, n) == IF n = 0 THEN 1 ELSE b * Pow(b, n - 1)

\* wait = backoff_factor ** attempt
Wait(factor, k) == Pow(factor, k)

\* Variant: range(1, max_retries).
InRange_ShortRange(k, n) == 1 <= k /\ k < n

\* Variant: range(1, max_retries + 2).
InRange_OneMore(k, n) == 1 <= k /\ k < n + 2

\* for attempt in range(1, max_retries + 1): whether k is a value of the range.
InRange(k, n) == 1 <= k /\ k < n + 1

\* Variant: if attempt <= max_retries.
SleepsAfter_AfterLast(k, n) == k <= n

\* if attempt < max_retries: whether a sleep follows failed attempt k.
SleepsAfter(k, n) == k < n

\* One entry of history: the response whose body was parsed, or the exception.
Response(body) == [status |-> "OK", body |-> body]
Raised(e) == [status |-> e, body |-> "none"]

(***************************************************************************)
(* extract_all and fetch_weather.                                          *)
(***************************************************************************)
InitExtract ==
    /\ cities \in SeqsUpTo(CityNames, MaxCities)
    /\ max_retries \in 1..MaxRetries
    /\ backoff_factor \in BackoffFactors
    /\ pc = "loop"
    /\ idx = 0
    /\ attempt = 0
    /\ history = <<>>
    /\ sleeps = <<>>
    /\ ret = None
    /\ fetched = <<>>
    /\ results = <<>>
    /\ exc = "none"

\* extract_all, for city in cities: the call of fetch_weather, up to the first
\* value of its loop variable (an empty range falls through to return None).
CallFetch ==
    /\ pc = "loop"
    /\ idx < Len(cities)
    /\ attempt' = 1
    /\ history' = <<>>
    /\ sleeps' = <<>>
    /\ ret' = None
    /\ pc' = IF InRange(1, max_retries) THEN "request" ELSE "returned"
    /\ UNCHANGED <<cities, max_retries, backoff_factor, idx, fetched, results, exc>>
    /\ Logged(IF InRange(1, max_retries) THEN <<>> ELSE <<"ERROR">>)
    /\ UNCHANGED <<tvars, lvars, pvars, svars>>

\* Variant: the body is parsed and kept but the loop goes on.
RequestOk_KeepsGoing ==
    /\ pc = "request"
    /\ \E body \in Bodies :
          /\ history' = Append(history, Response(body))
          /\ ret' = Json(cities[idx + 1], attempt, body)
    /\ pc' = "after_except"
    /\ UNCHANGED <<cities, max_retries, backoff_factor, idx, attempt, sleeps, fetched, results, exc>>
    /\ Logged(<<"INFO", "INFO">>)
    /\ UNCHANGED <<tvars, lvars, pvars, svars>>

\* fetch_weather, one pass through the try block that ends with return data.
RequestOk ==
    /\ pc = "request"
    /\ \E body \in Bodies :
          /\ history' = Append(history, Response(body))
          /\ ret' = Json(cities[idx + 1], attempt, body)
    /\ pc' = "returned"
    /\ UNCHANGED <<cities, max_retries, backoff_factor, idx, attempt, sleeps, fetched, results, exc>>
    /\ Logged(<<"INFO", "INFO">>)
    /\ UNCHANGED <<tvars, lvars, pvars, svars>>

\* fetch_weather, one pass through the try block that raises e.
RequestRaises ==
    /\ pc = "request"
    /\ \E e \in Exceptions :
          /\ history' = Append(history, Raised(e))
          /\ CASE Handler(e) = "retry" ->
                    /\ pc' = "after_except"
                    /\ UNCHANGED <<ret, exc>>
               [] Handler(e) = "return_none" ->
                    /\ pc' = "returned"
                    /\ ret' = None
                    /\ UNCHANGED exc
               [] OTHER ->
                    /\ pc' = "raised"
                    /\ exc' = e
                    /\ UNCHANGED ret
          /\ Logged(CASE Handler(e) = "retry"       -> <<"INFO", "WARNING">>
                      [] Handler(e) = "return_none" -> <<"INFO", "ERROR">>
                      [] OTHER                      -> <<"INFO">>)
    /\ UNCHANGED <<cities, max_retries, backoff_factor, idx, attempt, sleeps, fetched, results>>
    /\ UNCHANGED <<tvars, lvars, pvars, svars>>

\* fetch_weather, after a caught retryable failure with a next value in the
\* range: the sleep of "if attempt < max_retries", then the next attempt.
Retry ==
    /\ pc = "after_except"
    /\ InRange(attempt + 1, max_retries)
    /\ sleeps' = IF SleepsAfter(attempt, max_retries)
                 THEN Append(sleeps, [after |-> attempt, wait |-> Wait(backoff_factor, attempt)])
                 ELSE sleeps
    /\ attempt' = attempt + 1
    /\ pc' = "request"
    /\ UNCHANGED <<cities, max_retries, backoff_factor, idx, history, ret, fetched, results, exc>>
    /\ Logged(IF SleepsAfter(attempt, max_retries) THEN <<"INFO">> ELSE <<>>)
    /\ UNCHANGED <<tvars, lvars, pvars, svars>>

\* Variant: the last failure is raised again once the range is exhausted.
Exhausted_Raises ==
    /\ pc = "after_except"
    /\ ~InRange(attempt + 1, max_retries)
    /\ exc' = history[Len(history)].status
    /\ pc' = "raised"
    /\ UNCHANGED <<cities, max_retries, backoff_factor, idx, attempt, history, sleeps, ret, fetched, results>>
    /\ UNCHANGED <<tvars, lvars, pvars, svars, gvars>>

\* fetch_weather, after a caught retryable failure on the last value of the
\* range: the (skipped) sleep, "All %d attempts failed", return None.
Exhausted ==
    /\ pc = "after_except"
    /\ ~InRange(attempt + 1, max_retries)
    /\ sleeps' = IF SleepsAfter(attempt, max_retries)
                 THEN Append(sleeps, [after |-> attempt, wait |-> Wait(backoff_factor, attempt)])
                 ELSE sleeps
    /\ ret' = None
    /\ pc' = "returned"
    /\ UNCHANGED <<cities, max_retries, backoff_factor, idx, attempt, history, fetched, results, exc>>
    /\ Logged((IF SleepsAfter(attempt, max_retries) THEN <<"INFO">> ELSE <<>>) \o <<"ERROR">>)
    /\ UNCHANGED <<tvars, lvars, pvars, svars>>

\* Variant: no test of raw.
Collect_NoNoneCheck(res, city, raw) == Append(res, [city |-> city, raw |-> raw])

\* The list extract_all holds after fetch_weather returned raw for city.
Collect(res, city, raw) ==
    IF raw # None THEN Append(res, [city |-> city, raw |-> raw]) ELSE res

\* Variant: the loop is left when a fetch gave nothing.
FetchReturns_StopsOnFailure ==
    /\ pc = "returned"
    /\ results' = Collect(results, cities[idx + 1], ret)
    /\ fetched' = Append(fetched, ret)
    /\ idx' = idx + 1
    /\ pc' = IF ret = None THEN "done" ELSE "loop"
    /\ UNCHANGED <<cities, max_retries, backoff_factor, attempt, history, sleeps, ret, exc>>
    /\ UNCHANGED <<tvars, lvars, pvars, svars, gvars>>

\* extract_all, the rest of the loop body: if raw is not None: results.append(...)
FetchReturns ==
    /\ pc = "returned"
    /\ results' = Collect(results, cities[idx + 1], ret)
    /\ fetched' = Append(fetched, ret)
    /\ idx' = idx + 1
    /\ pc' = "loop"
    /\ UNCHANGED <<cities, max_retries, backoff_factor, attempt, history, sleeps, ret, exc>>
    /\ UNCHANGED <<tvars, lvars, pvars, svars, gvars>>

\* extract_all, after the loop: return results.
ExtractReturns ==
    /\ pc = "loop"
    /\ idx = Len(cities)
    /\ pc' = "done"
    /\ UNCHANGED <<cities, max_retries, backoff_factor, idx, attempt, history, sleeps, ret, fetched, results, exc>>
    /\ Logged(<<"INFO">>)
    /\ UNCHANGED <<tvars, lvars, pvars, svars>>

(***************************************************************************)
(* Python and pandas values of the Transform stage.  A value is a record   *)
(* of its kind and its content; a float or a numeric cell holds its value  *)
(* in tenths (7.2 is 72).                                                  *)
(***************************************************************************)
PyInt(n) == [kind |-> "int", val |-> n]
PyFloat(tenths) == [kind |-> "float", val |-> tenths]
PyStr(s) == [kind |-> "str", val |-> s]
PyList == [kind |-> "list", val |-> <<>>]
PyDict(items) == [kind |-> "dict", val |-> items]
NaN == [kind |-> "NaN"]
NA == [kind |-> "NA"]

EmptyDict == PyDict(<<>>)

\* d.get(key, default); on a value that is no dict the attribute lookup fails.
HasGet(d) == d.kind = "dict"
Get(d, key, default) == IF key \in DOMAIN d.val THEN d.val[key] ELSE default

\* d with d[key] = value
With(d, key, value) ==
    PyDict([k \in DOMAIN d.val \cup {key} |-> IF k = key THEN value ELSE d.val[k]])

\* d without key
Without(d, key) == PyDict([k \in DOMAIN d.val \ {key} |-> d.val[k]])

\* datetime.now(timezone.utc).isoformat() at time t
IsoFormat(t) == PyStr("T" \o ToString(t))

EXPECTED_COLUMNS ==
    << "city", "timestamp", "temperature_c", "windspeed_kmh", "winddirection_deg",
       "weathercode", "is_day", "retrieval_timestamp" >>

Range(seq) == {seq[i] : i \in DOMAIN seq}

(***************************************************************************)
(* _parse_single                                                           *)
(***************************************************************************)
\* The exception classes of "except (KeyError, TypeError)".
ParseCaught == {"KeyError", "TypeError"}

Raise(e) == [kind |-> "raise", val |-> e]

\* Variant: retrieval_timestamp is the time of the payload.
ParsedDict_SourceTime(city_name, current, now) ==
    IF ~HasGet(current) THEN Raise("AttributeError")
    ELSE PyDict(
        [c \in Range(EXPECTED_COLUMNS) |->
            CASE c = "city"                -> city_name
              [] c = "timestamp"           -> Get(current, "time", None)
              [] c = "temperature_c"       -> Get(current, "temperature", None)
              [] c = "windspeed_kmh"       -> Get(current, "windspeed", None)
              [] c = "winddirection_deg"   -> Get(current, "winddirection", None)
              [] c = "weathercode"         -> Get(current, "weathercode", None)
              [] c = "is_day"              -> Get(current, "is_day", None)
              [] c = "retrieval_timestamp" -> Get(current, "time", None)])

\* Variant: current["time"], current["temperature"], ... instead of get.
ParsedDict_Subscript(city_name, current, now) ==
    IF ~HasGet(current) THEN Raise("TypeError")
    ELSE IF \E k \in {"time", "temperature", "windspeed", "winddirection", "weathercode", "is_day"} :
                k \notin DOMAIN current.val
         THEN Raise("KeyError")
         ELSE PyDict(
            [c \in Range(EXPECTED_COLUMNS) |->
                CASE c = "city"                -> city_name
                  [] c = "timestamp"           -> current.val["time"]
                  [] c = "temperature_c"       -> current.val["temperature"]
                  [] c = "windspeed_kmh"       -> current.val["windspeed"]
                  [] c = "winddirection_deg"   -> current.val["winddirection"]
                  [] c = "weathercode"         -> current.val["weathercode"]
                  [] c = "is_day"              -> current.val["is_day"]
                  [] c = "retrieval_timestamp" -> IsoFormat(now)])

\* The dict built in the try block; the first current.get fails when current
\* has no get.
ParsedDict(city_name, current, now) ==
    IF ~HasGet(current) THEN Raise("AttributeError")
    ELSE PyDict(
        [c \in Range(EXPECTED_COLUMNS) |->
            CASE c = "city"                -> city_name
              [] c = "timestamp"           -> Get(current, "time", None)
              [] c = "temperature_c"       -> Get(current, "temperature", None)
              [] c = "windspeed_kmh"       -> Get(current, "windspeed", None)
              [] c = "winddirection_deg"   -> Get(current, "winddirection", None)
              [] c = "weathercode"         -> Get(current, "weathercode", None)
              [] c = "is_day"              -> Get(current, "is_day", None)
              [] c = "retrieval_timestamp" -> IsoFormat(now)])

\* The logger calls of _parse_single on record: a warning for a missing
\* block, an error for a caught exception.
ParseSingleLogs(record, now) ==
    LET city_name == Get(record, "city", PyStr("unknown"))
        raw == Get(record, "raw", EmptyDict)
    IN  IF ~HasGet(raw) THEN <<>>
        ELSE LET current == Get(raw, "current_weather", None)
             IN  IF current = None THEN <<"WARNING">>
                 ELSE LET parsed == ParsedDict(city_name, current, now)
                      IN  IF parsed.kind = "raise" /\ parsed.val \in ParseCaught
                          THEN <<"ERROR">>
                          ELSE <<>>

\* Variant: current = raw.get("current_weather", {}).
ParseSingle_DefaultBlock(record, now) ==
    LET city_name == Get(record, "city", PyStr("unknown"))
        raw == Get(record, "raw", EmptyDict)
    IN  IF ~HasGet(raw) THEN Raise("AttributeError")
        ELSE LET current == Get(raw, "current_weather", EmptyDict)
             IN  IF current = None THEN None
                 ELSE LET parsed == ParsedDict(city_name, current, now)
                      IN  IF parsed.kind = "raise" /\ parsed.val \in ParseCaught
                          THEN None
                          ELSE parsed

\* _parse_single(record) at time now: the flat dict, None, or the exception
\* that leaves it.
ParseSingle(record, now) ==
    LET city_name == Get(record, "city", PyStr("unknown"))
        raw == Get(record, "raw", EmptyDict)
    IN  IF ~HasGet(raw) THEN Raise("AttributeError")
        ELSE LET current == Get(raw, "current_weather", None)
             IN  IF current = None THEN None
                 ELSE LET parsed == ParsedDict(city_name, current, now)
                      IN  IF parsed.kind = "raise" /\ parsed.val \in ParseCaught
                          THEN None
                          ELSE parsed

(***************************************************************************)
(* pandas: DataFrame, to_numeric(errors="coerce"), astype("Int64")         *)
(***************************************************************************)
\* pd.DataFrame(data, columns=columns): the rows of data restricted to
\* columns, a key that a row lacks giving NaN.
DataFrame(data, columns) ==
    [columns |-> columns,
     rows |-> [i \in DOMAIN data |->
                 [c \in Range(columns) |-> Get(data[i], c, NaN)]]]

Column(frame, c) == [i \in DOMAIN frame.rows |-> frame.rows[i][c]]

\* df[c] = series
SetColumn(frame, c, series) ==
    [frame EXCEPT !.rows = [i \in DOMAIN frame.rows |-> [frame.rows[i] EXCEPT ![c] = series[i]]]]

\* The strings of the model that float() parses, with their value in tenths.
NumericStrings == [s \in {"3", "3.5"} |-> IF s = "3" THEN 30 ELSE 35]

\* The strings that parse as an integer.
IntegerStrings == {"3"}

\* to_numeric on one element, in tenths; NaN for what errors="coerce" coerces.
Tenths(x) ==
    CASE x.kind = "int"   -> PyFloat(10 * x.val)
      [] x.kind = "float" -> x
      [] x.kind = "str"   -> IF x.val \in DOMAIN NumericStrings
                             THEN PyFloat(NumericStrings[x.val]) ELSE NaN
      [] OTHER            -> NaN

\* Whether to_numeric sees an integer in x.
IsInteger(x) == x.kind = "int" \/ (x.kind = "str" /\ x.val \in IntegerStrings)

\* pd.to_numeric(series, errors="coerce"): int64 when every element is an
\* integer, float64 otherwise.
ToNumeric(series) ==
    IF \A i \in DOMAIN series : IsInteger(series[i])
    THEN [i \in DOMAIN series |-> PyInt(Tenths(series[i]).val \div 10)]
    ELSE [i \in DOMAIN series |-> Tenths(series[i])]

\* series.astype("Int64") raises TypeError ("cannot safely cast non-equivalent
\* float64 to int64") when a float of the series is not a whole number.
CannotCastToInt64(series) ==
    \E i \in DOMAIN series : series[i].kind = "float" /\ series[i].val % 10 # 0

AsTypeInt64(series) ==
    [i \in DOMAIN series |->
        CASE series[i].kind = "int"   -> series[i]
          [] series[i].kind = "float" -> PyInt(series[i].val \div 10)
          [] OTHER                    -> NA]

(***************************************************************************)
(* transform                                                               *)
(***************************************************************************)
\* The payloads of the model: the current_weather block of the sample
\* response, variants of it, and what else may sit under the key.
SampleBlock ==
    PyDict([k \in {"time", "temperature", "windspeed", "winddirection", "weathercode", "is_day"} |->
            CASE k = "time"          -> PyStr("2026-02-18T22:00")
              [] k = "temperature"   -> PyFloat(72)
              [] k = "windspeed"     -> PyFloat(125)
              [] k = "winddirection" -> PyInt(210)
              [] k = "weathercode"   -> PyInt(3)
              [] k = "is_day"        -> PyInt(0)])

NumericKeys == {"temperature", "windspeed", "winddirection", "weathercode", "is_day"}

OddValues == {None, PyStr("abc"), PyStr("3.5"), PyFloat(35), PyFloat(30)}

Blocks ==
    {SampleBlock, EmptyDict}
    \cup {With(SampleBlock, k, v) : k \in NumericKeys, v \in OddValues}
    \cup {Without(SampleBlock, k) : k \in DOMAIN SampleBlock.val}
    \cup {With(SampleBlock, "time", None)}

NotBlocks == {PyStr("n/a"), PyInt(5), PyList}

Payloads ==
    {EmptyDict} \cup {PyDict([current_weather |-> b]) : b \in Blocks \cup NotBlocks \cup {None}}

\* The city of the i-th record of a batch.
BatchCities == <<"Broken", "Paris", "Lyon", "Oslo">>
CityAt(i) == PyStr(BatchCities[((i - 1) % Len(BatchCities)) + 1])

\* The batches of at most n records: any payload under each city.
Batches(n) ==
    {[i \in DOMAIN ps |-> PyDict([city |-> CityAt(i), raw |-> ps[i]])] : ps \in SeqsUpTo(Payloads, n)}

\* d restricted to keys
Restrict(d, keys) == PyDict([k \in DOMAIN d.val \cap keys |-> d.val[k]])

\* The sample block with any subset of its sub-fields, and the batches that
\* hold at most one of them among records with the whole block or none.
SubfieldPayloads ==
    {PyDict([current_weather |-> Restrict(SampleBlock, S)]) : S \in SUBSET DOMAIN SampleBlock.val}

Neighbours == {EmptyDict, PyDict([current_weather |-> SampleBlock])}

SubfieldBatches(n) ==
    {[i \in DOMAIN ps |-> PyDict([city |-> CityAt(i), raw |-> ps[i]])] :
        ps \in {qs \in SeqsUpTo(SubfieldPayloads \cup Neighbours, n) :
                  Cardinality({i \in DOMAIN qs : qs[i] \notin Neighbours}) <= 1}}

InitSubfields ==
    /\ raw_records \in SubfieldBatches(MaxBatch)
    /\ t_pc = "loop"
    /\ t_i = 0
    /\ rows = <<>>
    /\ df = None
    /\ t_exc = "none"
    /\ clock = 0

InitTransform ==
    /\ raw_records \in Batches(MaxBatch)
    /\ t_pc = "loop"
    /\ t_i = 0
    /\ rows = <<>>
    /\ df = None
    /\ t_exc = "none"
    /\ clock = 0

\* Variant: rows.insert(0, parsed).
ParseNext_Prepends ==
    /\ t_pc = "loop"
    /\ t_i < Len(raw_records)
    /\ clock' = clock + 1
    /\ LET parsed == ParseSingle(raw_records[t_i + 1], clock')
       IN  IF parsed.kind = "raise"
           THEN /\ t_pc' = "raised"
                /\ t_exc' = parsed.val
                /\ UNCHANGED <<t_i, rows>>
           ELSE /\ rows' = IF parsed # None THEN <<parsed>> \o rows ELSE rows
                /\ t_i' = t_i + 1
                /\ UNCHANGED <<t_pc, t_exc>>
    /\ UNCHANGED <<raw_records, df>>
    /\ Logged(ParseSingleLogs(raw_records[t_i + 1], clock'))
    /\ UNCHANGED <<evars, lvars, pvars, svars>>

\* transform, one pass through "for record in raw_records".
ParseNext ==
    /\ t_pc = "loop"
    /\ t_i < Len(raw_records)
    /\ clock' = clock + 1
    /\ LET parsed == ParseSingle(raw_records[t_i + 1], clock')
       IN  IF parsed.kind = "raise"
           THEN /\ t_pc' = "raised"
                /\ t_exc' = parsed.val
                /\ UNCHANGED <<t_i, rows>>
           ELSE /\ rows' = IF parsed # None THEN Append(rows, parsed) ELSE rows
                /\ t_i' = t_i + 1
                /\ UNCHANGED <<t_pc, t_exc>>
    /\ UNCHANGED <<raw_records, df>>
    /\ Logged(ParseSingleLogs(raw_records[t_i + 1], clock'))
    /\ UNCHANGED <<evars, lvars, pvars, svars>>

\* Variant: return pd.DataFrame()
EmptyFrame_NoColumns == DataFrame(<<>>, <<>>)

\* return pd.DataFrame(columns=EXPECTED_COLUMNS)
EmptyFrame == DataFrame(<<>>, EXPECTED_COLUMNS)

\* transform, "if not rows": the empty DataFrame.
ReturnEmpty ==
    /\ t_pc = "loop"
    /\ t_i = Len(raw_records)
    /\ rows = <<>>
    /\ df' = EmptyFrame
    /\ t_pc' = "done"
    /\ UNCHANGED <<raw_records, t_i, rows, t_exc, clock>>
    /\ Logged(<<"WARNING">>)
    /\ UNCHANGED <<evars, lvars, pvars, svars>>

\* The three float columns after their pd.to_numeric.
FloatsCoerced(frame) ==
    LET f1 == SetColumn(frame, "temperature_c", ToNumeric(Column(frame, "temperature_c")))
        f2 == SetColumn(f1, "windspeed_kmh", ToNumeric(Column(f1, "windspeed_kmh")))
    IN  SetColumn(f2, "winddirection_deg", ToNumeric(Column(f2, "winddirection_deg")))

\* transform, the DataFrame of rows and its coercions, up to the first that
\* raises.
ReturnFrame ==
    /\ t_pc = "loop"
    /\ t_i = Len(raw_records)
    /\ rows # <<>>
    /\ LET f3 == FloatsCoerced(DataFrame(rows, EXPECTED_COLUMNS))
           code == ToNumeric(Column(f3, "weathercode"))
           f4 == SetColumn(f3, "weathercode", AsTypeInt64(code))
           day == ToNumeric(Column(f4, "is_day"))
           f5 == SetColumn(f4, "is_day", AsTypeInt64(day))
       IN  IF CannotCastToInt64(code) \/ CannotCastToInt64(day)
           THEN /\ t_pc' = "raised"
                /\ t_exc' = "TypeError"
                /\ UNCHANGED <<df, gvars>>
           ELSE /\ df' = f5
                /\ t_pc' = "done"
                /\ Logged(<<"INFO">>)
                /\ UNCHANGED t_exc
    /\ UNCHANGED <<raw_records, t_i, rows, clock>>
    /\ UNCHANGED <<evars, lvars, pvars, svars>>

(***************************************************************************)
(* The Load stage: weather_etl/load.py.                                    *)
(***************************************************************************)
\* The rows of the frames handed to the Load stage: the row of the sample
\* record, a row of nulls, and a row whose timestamp is the empty string.
SampleRow ==
    PyDict([c \in Range(EXPECTED_COLUMNS) |->
        CASE c = "city"                -> PyStr("Paris")
          [] c = "timestamp"           -> PyStr("2026-02-18T22:00")
          [] c = "temperature_c"       -> PyFloat(72)
          [] c = "windspeed_kmh"       -> PyFloat(125)
          [] c = "winddirection_deg"   -> PyFloat(2100)
          [] c = "weathercode"         -> PyInt(3)
          [] c = "is_day"              -> PyInt(0)
          [] c = "retrieval_timestamp" -> IsoFormat(1)])

NullsRow ==
    PyDict([c \in Range(EXPECTED_COLUMNS) |->
        CASE c = "city"                -> PyStr("Lyon")
          [] c = "timestamp"           -> None
          [] c \in {"temperature_c", "windspeed_kmh", "winddirection_deg"} -> NaN
          [] c \in {"weathercode", "is_day"} -> NA
          [] c = "retrieval_timestamp" -> IsoFormat(2)])

EmptyTimeRow == With(With(SampleRow, "city", PyStr("Oslo")), "timestamp", PyStr(""))

LoadRows == {SampleRow, NullsRow, EmptyTimeRow}

LoadFrames == {DataFrame(d, EXPECTED_COLUMNS) : d \in SeqsUpTo(LoadRows, MaxRows)}

\* df.empty
IsEmpty(frame) == Len(frame.rows) = 0 \/ Len(frame.columns) = 0

\* data_dir / f"weather_data_{ts}.csv", ts the wall clock to the second
FileName(t) == "weather_data_" \o ToString(t) \o ".csv"

\* The text of a float, of which t holds the tenths.
DecimalText(t) == ToString(t \div 10) \o "." \o ToString(t % 10)

\* df.to_csv: the text of one cell; a missing value gives the empty text.
CsvField(x) ==
    CASE x.kind = "str"   -> x.val
      [] x.kind = "int"   -> ToString(x.val)
      [] x.kind = "float" -> DecimalText(x.val)
      [] OTHER            -> ""

\* df.to_csv(filepath, index=False): the header line and one line per row.
ToCsv(frame) ==
    [header |-> frame.columns,
     lines |-> [i \in DOMAIN frame.rows |->
                  [j \in DOMAIN frame.columns |-> CsvField(frame.rows[i][frame.columns[j]])]]]

\* files with content written under name (a file of that name is replaced)
WriteFile(fs, name, content) ==
    [n \in DOMAIN fs \cup {name} |-> IF n = name THEN content ELSE fs[n]]

\* One call of the log.
Call(fn, frame, at, result, raised) ==
    [fn |-> fn, df |-> frame, at |-> at, ret |-> result, exc |-> raised]

InitLoad ==
    /\ files = <<>>
    /\ db = None
    /\ l_clock = 0
    /\ l_calls = <<>>

\* load_to_csv(df, data_dir)
load_to_csv(frame) ==
    /\ IF IsEmpty(frame)
       THEN /\ l_calls' = Append(l_calls, Call("load_to_csv", frame, l_clock, None, "none"))
            /\ Logged(<<"WARNING">>)
            /\ UNCHANGED files
       ELSE /\ files' = WriteFile(files, FileName(l_clock), ToCsv(frame))
            /\ LoggedIn("data", <<"INFO">>)
            /\ l_calls' = Append(l_calls,
                  Call("load_to_csv", frame, l_clock, PyStr(FileName(l_clock)), "none"))
    /\ UNCHANGED <<db, l_clock>>

\* A call of load_to_csv with some frame.
LoadToCsv ==
    /\ Len(l_calls) < MaxLoads
    /\ \E frame \in LoadFrames : load_to_csv(frame)
    /\ UNCHANGED <<evars, tvars, pvars, svars>>

\* The declared type of each column of weather_current (_CREATE_TABLE_SQL).
ColumnType ==
    [c \in Range(EXPECTED_COLUMNS) |->
        CASE c \in {"city", "timestamp", "retrieval_timestamp"} -> "TEXT"
          [] c \in {"temperature_c", "windspeed_kmh", "winddirection_deg"} -> "REAL"
          [] OTHER -> "INTEGER"]

\* The columns declared NOT NULL.
NotNullColumns == {"city", "retrieval_timestamp"}

\* The value SQLite stores for x in a column of type ty: a missing value is
\* bound as NULL, an integer in a REAL column becomes a real.
Stored(ty, x) ==
    CASE x.kind \in {"None", "NaN", "NA"}  -> None
      [] ty = "REAL" /\ x.kind = "int"     -> PyFloat(10 * x.val)
      [] ty = "INTEGER" /\ x.kind = "float" /\ x.val % 10 = 0 -> PyInt(x.val \div 10)
      [] OTHER                             -> x

\* As Inserted, with the table replaced by the rows of frame.
Inserted_Replaces(table, frame) ==
    [i \in DOMAIN frame.rows |->
       [id |-> i,
        cells |-> [c \in Range(frame.columns) |-> Stored(ColumnType[c], frame.rows[i][c])]]]

\* The rows of weather_current after the rows of frame are inserted: id is
\* the next of the sequence.
Inserted(table, frame) ==
    table \o [i \in DOMAIN frame.rows |->
                [id |-> Len(table) + i,
                 cells |-> [c \in Range(frame.columns) |-> Stored(ColumnType[c], frame.rows[i][c])]]]

\* A row of frame has NULL in a NOT NULL column.
NotNullViolated(frame) ==
    \E i \in DOMAIN frame.rows : \E c \in NotNullColumns \cap Range(frame.columns) :
        Stored(ColumnType[c], frame.rows[i][c]) = None

\* CREATE TABLE IF NOT EXISTS weather_current, on the database file that
\* sqlite3.connect opened or created.
TableCreated(d) == IF d = None THEN [kind |-> "db", table |-> <<>>] ELSE d

\* SELECT COUNT(*) FROM weather_current
CountRows(d) == Len(d.table)

\* As load_to_sqlite, without the early return on an empty frame.
load_to_sqlite_NoEmptyCheck(frame) ==
    /\ \E outcome \in {"ok", "connect_error", "insert_error"} :
               CASE outcome = "connect_error" ->
                       /\ l_calls' = Append(l_calls,
                             Call("load_to_sqlite", frame, l_clock, None, "sqlite3.Error"))
                       /\ LoggedIn("data", <<"ERROR">>)
                       /\ UNCHANGED db
                 [] outcome = "insert_error" \/ NotNullViolated(frame) ->
                       /\ LoggedIn("data", <<"ERROR">>)
                       /\ db' = TableCreated(db)
                       /\ l_calls' = Append(l_calls,
                             Call("load_to_sqlite", frame, l_clock, None, "sqlite3.Error"))
                 [] OTHER ->
                       LET before == TableCreated(db)
                           after == [before EXCEPT !.table = Inserted(before.table, frame)]
                       IN  /\ db' = after
                           /\ LoggedIn("data", <<"INFO">>)
                           /\ l_calls' = Append(l_calls,
                                 Call("load_to_sqlite", frame, l_clock,
                                      PyInt(CountRows(after) - CountRows(before)), "none"))
    /\ UNCHANGED <<files, l_clock>>

\* The rows of frame that come before the first row that cannot be inserted
\* (before the last row when every row can).
RowsBeforeFailure(frame) ==
    LET bad == {i \in DOMAIN frame.rows :
                  \E c \in NotNullColumns : Stored(ColumnType[c], frame.rows[i][c]) = None}
        stop == IF bad = {} THEN Len(frame.rows) ELSE CHOOSE i \in bad : \A j \in bad : i <= j
    IN  [frame EXCEPT !.rows = SubSeq(frame.rows, 1, stop - 1)]

\* As load_to_sqlite, with every row committed as it is inserted: a failing
\* insert leaves the rows before it in the table.
load_to_sqlite_NoRollback(frame) ==
    /\ IF IsEmpty(frame)
       THEN /\ l_calls' = Append(l_calls, Call("load_to_sqlite", frame, l_clock, PyInt(0), "none"))
            /\ Logged(<<"WARNING">>)
            /\ UNCHANGED db
       ELSE \E outcome \in {"ok", "connect_error", "insert_error"} :
               CASE outcome = "connect_error" ->
                       /\ l_calls' = Append(l_calls,
                             Call("load_to_sqlite", frame, l_clock, None, "sqlite3.Error"))
                       /\ LoggedIn("data", <<"ERROR">>)
                       /\ UNCHANGED db
                 [] outcome = "insert_error" \/ NotNullViolated(frame) ->
                       /\ LoggedIn("data", <<"ERROR">>)
                       /\ db' = [TableCreated(db) EXCEPT
                                    !.table = Inserted(@, RowsBeforeFailure(frame))]
                       /\ l_calls' = Append(l_calls,
                             Call("load_to_sqlite", frame, l_clock, None, "sqlite3.Error"))
                 [] OTHER ->
                       LET before == TableCreated(db)
                           after == [before EXCEPT !.table = Inserted(before.table, frame)]
                       IN  /\ db' = after
                           /\ LoggedIn("data", <<"INFO">>)
                           /\ l_calls' = Append(l_calls,
                                 Call("load_to_sqlite", frame, l_clock,
                                      PyInt(CountRows(after) - CountRows(before)), "none"))
    /\ UNCHANGED <<files, l_clock>>

\* load_to_sqlite(df, db_path).  The connection may fail (the file cannot be
\* opened), and so may the insert (a constraint, the disk, a lock): the
\* transaction is rolled back, the error logged and raised again.
load_to_sqlite(frame) ==
    /\ IF IsEmpty(frame)
       THEN /\ l_calls' = Append(l_calls, Call("load_to_sqlite", frame, l_clock, PyInt(0), "none"))
            /\ Logged(<<"WARNING">>)
            /\ UNCHANGED db
       ELSE \E outcome \in {"ok", "connect_error", "insert_error"} :
               CASE outcome = "connect_error" ->
                       /\ l_calls' = Append(l_calls,
                             Call("load_to_sqlite", frame, l_clock, None, "sqlite3.Error"))
                       /\ LoggedIn("data", <<"ERROR">>)
                       /\ UNCHANGED db
                 [] outcome = "insert_error" \/ NotNullViolated(frame) ->
                       /\ LoggedIn("data", <<"ERROR">>)
                       /\ db' = TableCreated(db)
                       /\ l_calls' = Append(l_calls,
                             Call("load_to_sqlite", frame, l_clock, None, "sqlite3.Error"))
                 [] OTHER ->
                       LET before == TableCreated(db)
                           after == [before EXCEPT !.table = Inserted(before.table, frame)]
                       IN  /\ db' = after
                           /\ LoggedIn("data", <<"INFO">>)
                           /\ l_calls' = Append(l_calls,
                                 Call("load_to_sqlite", frame, l_clock,
                                      PyInt(CountRows(after) - CountRows(before)), "none"))
    /\ UNCHANGED <<files, l_clock>>

\* A call of load_to_sqlite with some frame.
LoadToSqlite ==
    /\ Len(l_calls) < MaxLoads
    /\ \E frame \in LoadFrames : load_to_sqlite(frame)
    /\ UNCHANGED <<evars, tvars, pvars, svars>>

\* Rows that weather_current rejects: no city, no retrieval_timestamp.
NullCityRow == With(SampleRow, "city", None)

NullStampRow == With(With(SampleRow, "city", PyStr("Lyon")), "retrieval_timestamp", None)

\* Frames of rows the table accepts and rows it rejects, in any order.
MixedFrames ==
    {DataFrame(d, EXPECTED_COLUMNS) :
        d \in SeqsUpTo({SampleRow, NullCityRow, NullStampRow}, MaxRows + 1)}

\* A call of load_to_sqlite with a frame that may hold rejected rows.
LoadMixed ==
    /\ Len(l_calls) < MaxLoads
    /\ \E frame \in MixedFrames : load_to_sqlite(frame)
    /\ UNCHANGED <<evars, tvars, pvars, svars>>

\* A second of wall-clock time passes.
Tick ==
    /\ l_clock < MaxClock
    /\ l_clock' = l_clock + 1
    /\ UNCHANGED <<files, db, l_calls>>
    /\ UNCHANGED <<evars, tvars, pvars, svars, gvars>>

(***************************************************************************)
(* One run of the pipeline: run_pipeline of main.py.                       *)
(***************************************************************************)
\* The documents the API answers with in a run: the sample payload, a payload
\* without the block, and a payload whose block is a string.
PipelinePayloads ==
    {PyDict([current_weather |-> SampleBlock]), EmptyDict, PyDict([current_weather |-> PyStr("n/a")])}

\* The records of extract_all as transform reads them: res[k].raw is the
\* document response.json() parsed, whose content is docs[k].
AsRecords(res, docs) == [k \in DOMAIN res |-> PyDict([city |-> PyStr(res[k].city), raw |-> docs[k]])]

\* api.max_retries of the configuration of a run.
PipelineRetries == {1, 2}

\* The scheduler, outside scheduled mode, and the logger of a new process.
SchedulerIdle == s_pc = "idle" /\ s_interval = 1 /\ s_timer = 0 /\ s_runs = <<>>

LoggingIdle ==
    /\ g_handlers = <<>> /\ g_level = "NOTSET" /\ g_dirs = {}
    /\ g_calls = <<>> /\ g_msgs = 0 /\ g_out = <<>>

OthersIdle == SchedulerIdle /\ LoggingIdle

\* The frame an earlier run loaded.
EarlierFrame == DataFrame(<<SampleRow>>, EXPECTED_COLUMNS)

\* What a run finds in data_dir and at db_path: nothing, or the file and the
\* table of an earlier run.
Persisted ==
    {[files |-> <<>>, db |-> None],
     [files |-> WriteFile(<<>>, FileName(0), ToCsv(EarlierFrame)),
      db |-> [kind |-> "db", table |-> Inserted(<<>>, EarlierFrame)]]}

\* The process as run_pipeline is entered: a configuration file, what
\* earlier runs persisted, and a logger nobody has configured.
InitPipeline ==
    /\ cities \in SeqsUpTo(CityNames, MaxCities)
    /\ max_retries \in PipelineRetries
    /\ backoff_factor = 2
    /\ pc = "idle" /\ idx = 0 /\ attempt = 0 /\ history = <<>> /\ sleeps = <<>>
    /\ ret = None /\ fetched = <<>> /\ results = <<>> /\ exc = "none"
    /\ raw_records = <<>> /\ t_pc = "idle" /\ t_i = 0 /\ rows = <<>>
    /\ df = None /\ t_exc = "none" /\ clock = 0
    /\ p_before \in Persisted
    /\ files = p_before.files
    /\ db = p_before.db
    /\ l_clock = 0
    /\ l_calls = <<>>
    /\ p_pc = "start"
    /\ p_stages = <<>>
    /\ p_exc = "none"
    /\ OthersIdle

\* run_pipeline up to the call of extract_all: setup_logging(log_dir), the
\* three lines of the banner, then "No cities defined" and return, or
\* "PHASE 1 / 3".
ReadCities ==
    /\ p_pc = "start"
    /\ p_pc' = IF cities = <<>> THEN "done" ELSE "extract"
    /\ LoggerBecomes(EmitAll(setup_logging(Logger, "logs", "INFO"),
                             <<"INFO", "INFO", "INFO">>
                                 \o (IF cities = <<>> THEN <<"ERROR">> ELSE <<"INFO">>)))
    /\ UNCHANGED <<p_stages, p_exc, p_before>>
    /\ UNCHANGED <<evars, tvars, lvars, svars>>

\* raw_records = extract_all(cities, api_config): the call, with an empty
\* results list and the first city next.
CallExtractAll ==
    /\ p_pc = "extract"
    /\ pc' = "loop"
    /\ idx' = 0
    /\ attempt' = 0
    /\ history' = <<>>
    /\ sleeps' = <<>>
    /\ ret' = None
    /\ fetched' = <<>>
    /\ results' = <<>>
    /\ exc' = "none"
    /\ p_pc' = "extracting"
    /\ p_stages' = Append(p_stages, "extract_all")
    /\ UNCHANGED <<cities, max_retries, backoff_factor>>
    /\ UNCHANGED <<p_exc, p_before>>
    /\ UNCHANGED <<tvars, lvars, svars, gvars>>

\* extract_all returned; if not raw_records: "No data extracted" and
\* return, else "PHASE 2 / 3".
AfterExtract ==
    /\ p_pc = "extracting"
    /\ pc = "done"
    /\ p_pc' = IF results = <<>> THEN "done" ELSE "transform"
    /\ Logged(IF results = <<>> THEN <<"WARNING">> ELSE <<"INFO">>)
    /\ UNCHANGED <<p_stages, p_exc, p_before>>
    /\ UNCHANGED <<evars, tvars, lvars, svars>>

\* df = transform(raw_records): the call, with an empty rows list.
CallTransform ==
    /\ p_pc = "transform"
    /\ \E docs \in [DOMAIN results -> PipelinePayloads] :
          raw_records' = AsRecords(results, docs)
    /\ t_pc' = "loop"
    /\ t_i' = 0
    /\ rows' = <<>>
    /\ df' = None
    /\ t_exc' = "none"
    /\ p_pc' = "transforming"
    /\ p_stages' = Append(p_stages, "transform")
    /\ UNCHANGED clock
    /\ UNCHANGED <<p_exc, p_before>>
    /\ UNCHANGED <<evars, lvars, svars, gvars>>

\* As AfterTransform, without the test of df.empty.
AfterTransform_NoEmptyCheck ==
    /\ p_pc = "transforming"
    /\ t_pc = "done"
    /\ p_pc' = "load_to_csv"
    /\ Logged(<<"INFO">>)
    /\ UNCHANGED <<p_stages, p_exc, p_before>>
    /\ UNCHANGED <<evars, tvars, lvars, svars>>

\* transform returned; if df.empty: "Transformation resulted in empty data"
\* and return, else "PHASE 3 / 3".
AfterTransform ==
    /\ p_pc = "transforming"
    /\ t_pc = "done"
    /\ p_pc' = IF IsEmpty(df) THEN "done" ELSE "load_to_csv"
    /\ Logged(IF IsEmpty(df) THEN <<"WARNING">> ELSE <<"INFO">>)
    /\ UNCHANGED <<p_stages, p_exc, p_before>>
    /\ UNCHANGED <<evars, tvars, lvars, svars>>

\* transform raised: run_pipeline catches nothing.
TransformRaises ==
    /\ p_pc = "transforming"
    /\ t_pc = "raised"
    /\ p_pc' = "raised"
    /\ p_exc' = t_exc
    /\ UNCHANGED <<p_stages, p_before>>
    /\ UNCHANGED <<evars, tvars, lvars, svars, gvars>>

\* csv_path = load_to_csv(df, data_dir=data_dir)
CallLoadToCsv ==
    /\ p_pc = "load_to_csv"
    /\ load_to_csv(df)
    /\ p_pc' = "load_to_sqlite"
    /\ p_stages' = Append(p_stages, "load_to_csv")
    /\ UNCHANGED <<p_exc, p_before>>
    /\ UNCHANGED <<evars, tvars, svars>>

\* rows_inserted = load_to_sqlite(df, db_path=db_path); an sqlite3.Error
\* leaves the run.
CallLoadToSqlite ==
    /\ p_pc = "load_to_sqlite"
    /\ load_to_sqlite(df)
    /\ p_stages' = Append(p_stages, "load_to_sqlite")
    /\ LET call == l_calls'[Len(l_calls')]
       IN  /\ p_pc' = IF call.exc = "none" THEN "complete" ELSE "raised"
           /\ p_exc' = call.exc
    /\ UNCHANGED p_before
    /\ UNCHANGED <<evars, tvars, svars>>

\* "Pipeline run complete." and the closing line of the banner.
RunComplete ==
    /\ p_pc = "complete"
    /\ p_pc' = "done"
    /\ Logged(<<"INFO", "INFO">>)
    /\ UNCHANGED <<p_stages, p_exc, p_before>>
    /\ UNCHANGED <<evars, tvars, lvars, svars>>

(***************************************************************************)
(* Scheduled mode: run_scheduled of main.py.                               *)
(***************************************************************************)
\* The configurations of the scheduled process.
ScheduledCities == {<<>>, <<"Paris">>}

\* How a run of run_pipeline ended: the exception that left it (run_pipeline
\* catches none), or the return it took: one of the three early exits, or
\* the end, both loads done.
RunOutcome ==
    IF p_pc = "raised" THEN p_exc
    ELSE CASE p_stages = <<>>    -> "no_cities"
           [] Len(p_stages) = 1  -> "no_records"
           [] Len(p_stages) = 2  -> "empty_frame"
           [] OTHER              -> "loaded"

\* run_pipeline is over: it returned or an exception left it.
RunOver == p_pc \in {"done", "raised"}

\* run_pipeline(config_path) is entered.
EnterRunPipeline ==
    /\ p_pc' = "start"
    /\ p_stages' = <<>>
    /\ p_exc' = "none"
    /\ p_before' = [files |-> files, db |-> db]

\* The process as run_scheduled is entered.
InitScheduled ==
    /\ s_pc = "start"
    /\ s_interval \in 1..MaxInterval
    /\ s_timer = 0
    /\ s_runs = <<>>

\* run_scheduled up to the first run: setup_logging(log_dir), "Scheduler
\* started", and the call run_pipeline(config_path).
StartScheduler ==
    /\ s_pc = "start"
    /\ s_pc' = "immediate"
    /\ LoggerBecomes(EmitAll(setup_logging(Logger, "logs", "INFO"), <<"INFO">>))
    /\ EnterRunPipeline
    /\ UNCHANGED <<s_interval, s_timer, s_runs>>
    /\ UNCHANGED <<evars, tvars, lvars>>

\* The immediate run is over: if it returned,
\* schedule_lib.every(interval).minutes.do(run_pipeline, config_path);
\* an exception of the run leaves run_scheduled.
ImmediateRun ==
    /\ s_pc = "immediate"
    /\ RunOver
    /\ s_runs' = Append(s_runs, RunOutcome)
    /\ s_pc' = IF p_pc = "raised" THEN "raised" ELSE "loop"
    /\ s_timer' = IF p_pc = "raised" THEN s_timer ELSE s_interval
    /\ UNCHANGED s_interval
    /\ UNCHANGED <<evars, tvars, lvars, pvars, gvars>>

\* while True: schedule_lib.run_pending() with the job due: the job,
\* run_pipeline(config_path), is called.
RunPending ==
    /\ s_pc = "loop"
    /\ s_timer = 0
    /\ Len(s_runs) < MaxRuns
    /\ s_pc' = "running"
    /\ EnterRunPipeline
    /\ UNCHANGED <<s_interval, s_timer, s_runs>>
    /\ UNCHANGED <<evars, tvars, lvars, gvars>>

\* The job is over: if it returned, schedule sets its next run; schedule
\* lets an exception of the job through, and it leaves the loop and
\* run_scheduled.
JobEnds ==
    /\ s_pc = "running"
    /\ RunOver
    /\ s_runs' = Append(s_runs, RunOutcome)
    /\ s_pc' = IF p_pc = "raised" THEN "raised" ELSE "loop"
    /\ s_timer' = IF p_pc = "raised" THEN s_timer ELSE s_interval
    /\ UNCHANGED s_interval
    /\ UNCHANGED <<evars, tvars, lvars, pvars, gvars>>

\* while True: run_pending() with no job due; time.sleep(1)
Sleep ==
    /\ s_pc = "loop"
    /\ s_timer > 0
    /\ s_timer' = s_timer - 1
    /\ UNCHANGED <<s_pc, s_interval, s_runs>>
    /\ UNCHANGED <<evars, tvars, lvars, pvars, gvars>>

(***************************************************************************)
(* The specifications.                                                     *)
(***************************************************************************)
\* The stage that is not running.
ExtractIdle ==
    /\ cities = <<>> /\ max_retries = 1 /\ backoff_factor = 1
    /\ pc = "idle" /\ idx = 0 /\ attempt = 0 /\ history = <<>> /\ sleeps = <<>>
    /\ ret = None /\ fetched = <<>> /\ results = <<>> /\ exc = "none"

TransformIdle ==
    /\ raw_records = <<>> /\ t_pc = "idle" /\ t_i = 0 /\ rows = <<>>
    /\ df = None /\ t_exc = "none" /\ clock = 0

LoadIdle == InitLoad

PipelineIdle == p_pc = "idle" /\ p_stages = <<>> /\ p_exc = "none" /\ p_before = None

Init == InitExtract /\ TransformIdle /\ LoadIdle /\ PipelineIdle /\ OthersIdle

Next ==
    \/ CallFetch
    \/ RequestOk
    \/ RequestRaises
    \/ Retry
    \/ Exhausted
    \/ FetchReturns
    \/ ExtractReturns

Spec == Init /\ [][Next]_vars

\* extract_all runs in one thread that is never suspended for good:
\* requests.get has a timeout and time.sleep is finite.
SpecFair == Spec /\ WF_vars(Next)

InitT == InitTransform /\ ExtractIdle /\ LoadIdle /\ PipelineIdle /\ OthersIdle

NextT ==
    \/ ParseNext
    \/ ReturnEmpty
    \/ ReturnFrame

SpecTransform == InitT /\ [][NextT]_vars

\* transform on the batches of SubfieldBatches.
InitS == InitSubfields /\ ExtractIdle /\ LoadIdle /\ PipelineIdle /\ OthersIdle

SpecSubfields == InitS /\ [][NextT]_vars

\* Calls of load_to_csv and load_to_sqlite, in any order, as time passes.
InitL == InitLoad /\ ExtractIdle /\ TransformIdle /\ PipelineIdle /\ OthersIdle

NextL ==
    \/ LoadToCsv
    \/ LoadToSqlite
    \/ Tick

SpecLoad == InitL /\ [][NextL]_vars

\* Calls of load_to_sqlite with frames of accepted and rejected rows.
NextLM ==
    \/ LoadMixed
    \/ Tick

SpecLoadMixed == InitL /\ [][NextLM]_vars

\* One run of run_pipeline, as time passes.
NextP ==
    \/ ReadCities
    \/ CallExtractAll
    \/ CallFetch
    \/ RequestOk
    \/ RequestRaises
    \/ Retry
    \/ Exhausted
    \/ FetchReturns
    \/ ExtractReturns
    \/ AfterExtract
    \/ CallTransform
    \/ ParseNext
    \/ ReturnEmpty
    \/ ReturnFrame
    \/ AfterTransform
    \/ TransformRaises
    \/ CallLoadToCsv
    \/ CallLoadToSqlite
    \/ RunComplete
    \/ Tick

SpecPipeline == InitPipeline /\ [][NextP]_vars

\* Calls of setup_logging and logged messages, in any order.
InitLog ==
    /\ InitLogging
    /\ ExtractIdle /\ TransformIdle /\ LoadIdle /\ PipelineIdle /\ SchedulerIdle

NextLog ==
    \/ SetupLogging
    \/ EnsureDirectory
    \/ LogMessage

SpecLogging == InitLog /\ [][NextLog]_vars

\* run_scheduled: the process keeps running, sleeping a second at a time,
\* and every run is a run of run_pipeline.
InitSch ==
    /\ InitScheduled
    /\ cities \in ScheduledCities
    /\ max_retries \in PipelineRetries
    /\ backoff_factor = 2
    /\ pc = "idle" /\ idx = 0 /\ attempt = 0 /\ history = <<>> /\ sleeps = <<>>
    /\ ret = None /\ fetched = <<>> /\ results = <<>> /\ exc = "none"
    /\ TransformIdle /\ LoadIdle /\ PipelineIdle /\ LoggingIdle

NextSch ==
    \/ StartScheduler
    \/ ImmediateRun
    \/ RunPending
    \/ JobEnds
    \/ Sleep
    \/ ReadCities
    \/ CallExtractAll
    \/ CallFetch
    \/ RequestOk
    \/ RequestRaises
    \/ Retry
    \/ Exhausted
    \/ FetchReturns
    \/ ExtractReturns
    \/ AfterExtract
    \/ CallTransform
    \/ ParseNext
    \/ ReturnEmpty
    \/ ReturnFrame
    \/ AfterTransform
    \/ TransformRaises
    \/ CallLoadToCsv
    \/ CallLoadToSqlite
    \/ RunComplete
    \/ Tick

SpecScheduled == InitSch /\ [][NextSch]_vars /\ WF_vars(NextSch)

(***************************************************************************)
(* Properties of fetch_weather and extract_all.                            *)
(***************************************************************************)
RetryableFailures == {"Timeout", "HTTPError", "ConnectionError"}

\* The current fetch_weather call is over: it returned, or was never made.
FetchOver == pc \in {"returned", "loop", "done"}

AllAttempts(S) == \A i \in DOMAIN history : history[i].status \in S

\* C1: a fetch_weather call whose every attempt fails with a retryable failure
\* (timeout, connection failure, HTTP error status) has issued exactly
\* max_retries requests when it returns, and returns None.
C1_ExactlyNAttemptsThenNone ==
    (pc = "returned" /\ AllAttempts(RetryableFailures)) =>
        /\ Len(history) = max_retries
        /\ ret = None

C1_Witness ==
    /\ pc = "returned"
    /\ max_retries = 3
    /\ Len(history) = 3
    /\ history[1].status = "Timeout"
    /\ history[2].status = "ConnectionError"
    /\ history[3].status = "HTTPError"

\* C2: an unrecoverable request error is the last request of the call: the
\* call is over at once with None and no sleep follows that attempt, so on the
\* first attempt exactly 1 request is made whatever max_retries is; whereas a
\* call of which every attempt met an HTTP error status made max_retries
\* requests.
C2_UnrecoverableEndsAtOnce ==
    /\ \A k \in DOMAIN history :
          history[k].status = "RequestException" =>
              /\ k = Len(history)
              /\ FetchOver
              /\ ret = None
              /\ \A j \in DOMAIN sleeps : sleeps[j].after < k
    /\ (pc = "returned" /\ AllAttempts({"HTTPError"})) => Len(history) = max_retries

C2_Witness ==
    /\ pc = "returned"
    /\ max_retries = 3
    /\ history = <<Raised("RequestException")>>
    /\ sleeps = <<>>

\* C3: if attempt k is the first to succeed, the call is over with the payload
\* of attempt k after exactly k requests, and no request and no sleep follows
\* the success.
C3_FirstSuccessReturnsAtOnce ==
    \A k \in DOMAIN history :
        history[k].status = "OK" =>
            /\ k = Len(history)
            /\ FetchOver
            /\ ret = Json(cities[Len(fetched) + IF pc = "returned" THEN 1 ELSE 0], k, history[k].body)
            /\ \A j \in DOMAIN sleeps : sleeps[j].after < k

C3_Witness ==
    /\ pc = "returned"
    /\ max_retries = 3
    /\ Len(history) = 2
    /\ history[1].status = "Timeout"
    /\ history[2] = Response("object")
    /\ ret # None
    /\ ret.attempt = 2

\* C4: fetch_weather never raises: whatever each attempt meets (timeout,
\* connection failure, HTTP error status, unrecoverable request error, a 200
\* response whose body is not JSON), no exception leaves it and what it
\* returns is a parsed payload or None.
C4_FetchNeverRaises ==
    /\ pc # "raised"
    /\ pc = "returned" => (ret = None \/ ret.kind = "json")
    /\ pc = "request" => ENABLED (RequestOk \/ RequestRaises)
    /\ pc = "after_except" => ENABLED (Retry \/ Exhausted)

C4_Witness ==
    /\ pc = "returned"
    /\ Len(history) = 2
    /\ history[1].status = "ConnectionError"
    /\ history[2].status = "JSONDecodeError"
    /\ ret = None

\* The {city, raw} pairs of the cities whose fetch returned a payload, in the
\* order of the list.
RECURSIVE Successes(_, _)
Successes(cs, fs) ==
    IF fs = <<>> THEN <<>>
    ELSE LET n == Len(fs)
             before == Successes(cs, SubSeq(fs, 1, n - 1))
         IN  IF fs[n] = None THEN before
             ELSE before \o <<[city |-> cs[n], raw |-> fs[n]]>>

\* C5: extract_all returns exactly the {city, raw} pairs of the cities whose
\* fetch succeeded, in the order of the input list, at most one per city, and
\* fewer pairs than cities as soon as one city failed.
C5_ExactlyTheSuccessesInOrder ==
    /\ results = Successes(cities, fetched)
    /\ Len(results) <= Len(fetched)
    /\ pc = "done" =>
          /\ Len(fetched) = Len(cities)
          /\ (\E i \in DOMAIN fetched : fetched[i] = None) => Len(results) < Len(cities)

C5_Witness ==
    /\ pc = "done"
    /\ cities = <<"Bad", "Paris">>
    /\ fetched[1] = None
    /\ fetched[2] # None
    /\ results = <<[city |-> "Paris", raw |-> fetched[2]]>>

\* C6: a failing city never makes extract_all fail: no exception leaves it,
\* and after a fetch that gave nothing (retries exhausted, unrecoverable
\* error, body that is not JSON) it goes on until it returns.
C6_BadCityNeverAborts ==
    /\ exc = "none"
    /\ (pc # "done") => ENABLED Next
    /\ (pc = "returned" /\ ret = None) => ENABLED FetchReturns

C6_Witness ==
    /\ pc = "done"
    /\ Len(cities) = 2
    /\ fetched[1] = None
    /\ fetched[2] # None
    /\ Len(results) = 1
    /\ history[Len(history)].status = "OK"

(***************************************************************************)
(* Properties of transform.                                                *)
(***************************************************************************)
\* What sits under "current_weather" in the raw payload of record r.
BlockOf(r) ==
    LET raw == r.val["raw"].val
    IN  IF "current_weather" \in DOMAIN raw THEN raw["current_weather"] ELSE None

HasNoBlock(r) == BlockOf(r) = None

BlockIsNoMapping(r) == ~HasNoBlock(r) /\ BlockOf(r).kind # "dict"

\* The cities of the first n records, those without a block left out.
RECURSIVE CitiesWithBlock(_, _)
CitiesWithBlock(records, n) ==
    IF n = 0 THEN <<>>
    ELSE IF HasNoBlock(records[n]) THEN CitiesWithBlock(records, n - 1)
         ELSE Append(CitiesWithBlock(records, n - 1), records[n].val["city"])

\* The record transform was parsing when an exception left it, 0 if none.
RaisedAt == IF t_pc = "raised" /\ t_i < Len(raw_records) THEN t_i + 1 ELSE 0

\* C7: a record whose raw payload has no current_weather block gives no row
\* and no exception, and the records around it still give their rows: the
\* rows are those of the records that have a block, in order.
C7_MissingBlockSkipped ==
    /\ RaisedAt # 0 => ~HasNoBlock(raw_records[RaisedAt])
    /\ [i \in DOMAIN rows |-> rows[i].val["city"]] = CitiesWithBlock(raw_records, t_i)
    /\ t_pc = "done" =>
          [i \in DOMAIN df.rows |-> df.rows[i]["city"]] = CitiesWithBlock(raw_records, Len(raw_records))

C7_Witness ==
    /\ t_pc = "done"
    /\ Len(raw_records) = 2
    /\ raw_records[1] = PyDict([city |-> PyStr("Broken"), raw |-> EmptyDict])
    /\ BlockOf(raw_records[2]) = SampleBlock
    /\ Len(df.rows) = 1
    /\ df.rows[1]["city"] = PyStr("Paris")
    /\ df.rows[1]["temperature_c"] = PyFloat(72)

\* C8: a record whose current_weather value is present but no mapping (a
\* string, a number, a list) is skipped: no exception leaves transform while
\* it parses that record.
C8_NonMappingBlockSkipped ==
    \A i \in DOMAIN raw_records :
        BlockIsNoMapping(raw_records[i]) => RaisedAt # i

\* The cells of frame that are neither a number of the column's type nor null.
NumericColumns == {"temperature_c", "windspeed_kmh", "winddirection_deg"}
IntegerColumns == {"weathercode", "is_day"}

IsNull(x) == x.kind \in {"None", "NaN", "NA"}

WellTyped(frame) ==
    \A i \in DOMAIN frame.rows :
        /\ \A c \in NumericColumns : frame.rows[i][c].kind \in {"float", "int", "NaN"}
        /\ \A c \in IntegerColumns : frame.rows[i][c].kind \in {"int", "NA"}

\* C9: whatever values sit in the numeric fields of the blocks, transform
\* returns without raising, with one row per record that has a block, and
\* every cell of a numeric column is a number of the column's type or null.
C9_UncoercibleBecomesNull ==
    (\A i \in DOMAIN raw_records : ~BlockIsNoMapping(raw_records[i])) =>
        /\ t_pc # "raised"
        /\ t_pc = "done" =>
              /\ Len(df.rows) = Len(CitiesWithBlock(raw_records, Len(raw_records)))
              /\ WellTyped(df)

\* C10: whether transform returns rows or none (empty input, every record
\* skipped), the table has the same 8 columns in the same order.
C10_FixedSchema ==
    t_pc = "done" =>
        /\ df.columns = << "city", "timestamp", "temperature_c", "windspeed_kmh",
                           "winddirection_deg", "weathercode", "is_day",
                           "retrieval_timestamp" >>
        /\ \A i \in DOMAIN df.rows : DOMAIN df.rows[i] = Range(df.columns)

C10_Witness ==
    /\ t_pc = "done"
    /\ Len(raw_records) = 2
    /\ \A i \in DOMAIN raw_records : HasNoBlock(raw_records[i])
    /\ df.rows = <<>>
    /\ Len(df.columns) = 8

\* The record of the batch that a row of the given city comes from.
SourceOf(city) == CHOOSE k \in DOMAIN raw_records : raw_records[k].val["city"] = city

\* The time sub-field of record k, None when the block has none.
SourceTime(k) ==
    LET block == BlockOf(raw_records[k])
    IN  IF "time" \in DOMAIN block.val THEN block.val["time"] ELSE None

\* C11: every row carries a retrieval_timestamp that is not null and is a
\* reading of the wall clock taken while transform ran, whatever the time of
\* the payload (present, absent, null); the time of the payload is what the
\* timestamp field holds.
C11_RetrievalTimestampSet ==
    /\ \A i \in DOMAIN rows :
          LET r == rows[i].val
          IN  /\ ~IsNull(r["retrieval_timestamp"])
              /\ r["retrieval_timestamp"] \in {IsoFormat(t) : t \in 1..clock}
              /\ r["timestamp"] = SourceTime(SourceOf(r["city"]))
    /\ t_pc = "done" =>
          \A i \in DOMAIN df.rows :
              /\ df.rows[i]["retrieval_timestamp"] = rows[i].val["retrieval_timestamp"]
              /\ df.rows[i]["timestamp"] = rows[i].val["timestamp"]

C11_Witness ==
    /\ t_pc = "done"
    /\ Len(df.rows) = 2
    /\ BlockOf(raw_records[1]) = Without(SampleBlock, "time")
    /\ BlockOf(raw_records[2]) = With(SampleBlock, "time", None)
    /\ df.rows[1]["timestamp"] = None
    /\ df.rows[1]["retrieval_timestamp"] = IsoFormat(1)
    /\ df.rows[2]["retrieval_timestamp"] = IsoFormat(2)

\* The sub-field that each column is read from.
SubfieldOf ==
    [c \in {"timestamp", "temperature_c", "windspeed_kmh", "winddirection_deg", "weathercode", "is_day"} |->
        CASE c = "timestamp"         -> "time"
          [] c = "temperature_c"     -> "temperature"
          [] c = "windspeed_kmh"     -> "windspeed"
          [] c = "winddirection_deg" -> "winddirection"
          [] c = "weathercode"       -> "weathercode"
          [] c = "is_day"            -> "is_day"]

\* The number in a cell, in tenths.
NumberIn(x) == IF x.kind = "int" THEN 10 * x.val ELSE x.val

\* Whether cell holds what the payload supplied (a number as a number of the
\* same value, anything else unchanged).
SameValue(cell, supplied) ==
    IF supplied.kind \in {"int", "float"}
    THEN cell.kind \in {"int", "float"} /\ NumberIn(cell) = NumberIn(supplied)
    ELSE cell = supplied

\* The rows that come from record k.
RowsOf(k) == {i \in DOMAIN rows : rows[i].val["city"] = raw_records[k].val["city"]}

\* C12: a record whose block is a mapping lacking any subset of its
\* sub-fields gives exactly one row, with null in the fields whose sub-field
\* is missing and the supplied value in the others, and no exception; only a
\* record without the block gives no row.
C12_MissingSubfieldIsNull ==
    /\ t_pc # "raised"
    /\ \A k \in 1..t_i :
          IF HasNoBlock(raw_records[k]) THEN RowsOf(k) = {}
          ELSE /\ Cardinality(RowsOf(k)) = 1
               /\ \A i \in RowsOf(k) : \A c \in DOMAIN SubfieldOf :
                     LET block == BlockOf(raw_records[k]).val
                     IN  /\ SubfieldOf[c] \notin DOMAIN block => rows[i].val[c] = None
                         /\ SubfieldOf[c] \in DOMAIN block => rows[i].val[c] = block[SubfieldOf[c]]
                         /\ t_pc = "done" =>
                               /\ SubfieldOf[c] \notin DOMAIN block => IsNull(df.rows[i][c])
                               /\ SubfieldOf[c] \in DOMAIN block =>
                                     SameValue(df.rows[i][c], block[SubfieldOf[c]])
    /\ t_pc = "done" => Len(df.rows) = Len(rows)

C12_Witness ==
    /\ t_pc = "done"
    /\ Len(raw_records) = 2
    /\ BlockOf(raw_records[1]) = Restrict(SampleBlock, {"temperature", "is_day"})
    /\ BlockOf(raw_records[2]) = SampleBlock
    /\ Len(df.rows) = 2
    /\ df.rows[1]["timestamp"] = None
    /\ df.rows[1]["temperature_c"] = PyFloat(72)
    /\ df.rows[1]["weathercode"] = NA
    /\ df.rows[1]["is_day"] = PyInt(0)

\* C13: the rows are in the order of the records they come from, each record
\* gives at most one row, and the records that give none are those skipped.
C13_RowsInInputOrder ==
    /\ \A i, j \in DOMAIN rows :
          i < j => SourceOf(rows[i].val["city"]) < SourceOf(rows[j].val["city"])
    /\ {SourceOf(rows[i].val["city"]) : i \in DOMAIN rows}
          = {k \in 1..t_i : ~HasNoBlock(raw_records[k])}
    /\ Len(rows) <= t_i
    /\ t_pc = "done" =>
          /\ Len(df.rows) = Len(rows)
          /\ \A i \in DOMAIN df.rows : df.rows[i]["city"] = rows[i].val["city"]

C13_Witness ==
    /\ t_pc = "done"
    /\ Len(raw_records) = 2
    /\ ~HasNoBlock(raw_records[1])
    /\ ~HasNoBlock(raw_records[2])
    /\ df.rows[1]["city"] = PyStr("Broken")
    /\ df.rows[2]["city"] = PyStr("Paris")

(***************************************************************************)
(* The back-off of fetch_weather.                                          *)
(***************************************************************************)
\* b to the power k
RECURSIVE Power(_, _)
Power(b, k) == IF k <= 0 THEN 1 ELSE Power(b, k - 1) * b

\* C20: the j-th sleep of a call follows failed attempt j, a retryable
\* failure that is not the last attempt, and lasts backoff_factor^j; nothing
\* else sleeps (not the last attempt, a success or an unrecoverable error), so
\* a call that made k requests slept k - 1 times, N - 1 times when all N
\* attempts failed; and the delays never decrease.
C20_BackoffSchedule ==
    /\ \A j \in DOMAIN sleeps :
          /\ sleeps[j].after = j
          /\ sleeps[j].wait = Power(backoff_factor, j)
          /\ j < max_retries
          /\ j \in DOMAIN history
          /\ history[j].status \in RetryableFailures
    /\ pc = "request" => Len(sleeps) = Len(history)
    /\ (pc = "after_except" \/ (FetchOver /\ history # <<>>)) => Len(sleeps) = Len(history) - 1
    /\ \A i, j \in DOMAIN sleeps : i < j => sleeps[i].wait <= sleeps[j].wait

C20_Witness ==
    /\ pc = "returned"
    /\ max_retries = 3
    /\ backoff_factor = 2
    /\ Len(history) = 3
    /\ history[3].status = "Timeout"
    /\ sleeps = <<[after |-> 1, wait |-> 2], [after |-> 2, wait |-> 4]>>

(***************************************************************************)
(* The Load stage.                                                         *)
(***************************************************************************)
\* The calls of fn that returned.
Returned(fn) == SelectSeq(l_calls, LAMBDA c : c.fn = fn /\ c.exc = "none")

\* The rows of the frames of calls, one frame after the other.
RECURSIVE RowsHanded(_)
RowsHanded(calls) ==
    IF calls = <<>> THEN <<>> ELSE calls[1].df.rows \o RowsHanded(Tail(calls))

\* The table holds the rows handed over, in order, each as SQLite stores it.
HoldsRows(table, handed) ==
    /\ Len(table) = Len(handed)
    /\ \A i \in DOMAIN table :
          /\ table[i].id = i
          /\ \A c \in Range(EXPECTED_COLUMNS) :
                table[i].cells[c] = Stored(ColumnType[c], handed[i][c])

\* The rows of weather_current; none while there is no file or no table.
TableRows(d) == IF d = None THEN <<>> ELSE d.table

\* C16: after any sequence of successful loads the table holds every row of
\* every load, in order (so its row count is the sum of the input lengths);
\* a load that handed rows over has created the file and the table; every
\* call returns the number of rows of its input; and no step removes or
\* alters a row that is already in the table.
C16_AppendOnly ==
    /\ [](/\ HoldsRows(TableRows(db), RowsHanded(Returned("load_to_sqlite")))
          /\ \A k \in DOMAIN l_calls :
                (l_calls[k].fn = "load_to_sqlite" /\ l_calls[k].exc = "none")
                   => /\ l_calls[k].ret = PyInt(Len(l_calls[k].df.rows))
                      /\ Len(l_calls[k].df.rows) > 0 => db # None)
    /\ [][/\ db # None => db' # None
          /\ Len(TableRows(db')) >= Len(TableRows(db))
          /\ \A i \in DOMAIN TableRows(db) : TableRows(db')[i] = TableRows(db)[i]]_vars

C16_Witness ==
    /\ Len(l_calls) = 2
    /\ \A k \in 1..2 : /\ l_calls[k].fn = "load_to_sqlite"
                       /\ l_calls[k].exc = "none"
                       /\ l_calls[k].ret = PyInt(1)
    /\ l_calls[1].df.rows[1]["city"] = PyStr("Paris")
    /\ l_calls[2].df.rows[1]["city"] = PyStr("Lyon")
    /\ Len(db.table) = 2
    /\ db.table[1].cells["city"] = PyStr("Paris")

\* C17: a call of load_to_csv with an empty frame returns None and leaves the
\* files as they were; a call of load_to_sqlite with an empty frame returns 0
\* and leaves the database as it was, file, table and rows; neither makes a
\* directory.
C17_EmptyLoadChangesNothing ==
    [][\A c \in {Call(fn, DataFrame(<<>>, EXPECTED_COLUMNS), l_clock, r, e) :
                    fn \in {"load_to_csv", "load_to_sqlite"},
                    r \in {None, PyInt(0)} \cup {PyStr(FileName(t)) : t \in 0..MaxClock},
                    e \in {"none", "sqlite3.Error"}} :
          l_calls' = Append(l_calls, c)
             => /\ files' = files
                /\ db' = db
                /\ g_dirs' = g_dirs
                /\ c.exc = "none"
                /\ c.ret = IF c.fn = "load_to_csv" THEN None ELSE PyInt(0)]_vars

C17_Witness ==
    /\ Len(l_calls) = 2
    /\ l_calls[1].fn = "load_to_sqlite" /\ l_calls[1].exc = "none"
    /\ ~IsEmpty(l_calls[1].df)
    /\ l_calls[2].fn = "load_to_sqlite" /\ l_calls[2].ret = PyInt(0)
    /\ IsEmpty(l_calls[2].df)
    /\ Len(db.table) = 1

\* The calls of load_to_csv that were handed rows.
CsvWrites == {k \in DOMAIN l_calls : l_calls[k].fn = "load_to_csv" /\ ~IsEmpty(l_calls[k].df)}

\* C18: every call of load_to_csv with a non-empty frame writes a file of
\* its own: there are as many files as such calls, each call returned a
\* different path, and the file of each call still holds what it wrote.
C18_DistinctFilePerCall ==
    /\ Cardinality(DOMAIN files) = Cardinality(CsvWrites)
    /\ \A j, k \in CsvWrites : j # k => l_calls[j].ret # l_calls[k].ret
    /\ \A k \in CsvWrites :
          /\ l_calls[k].ret.val \in DOMAIN files
          /\ files[l_calls[k].ret.val] = ToCsv(l_calls[k].df)

\* The numbers of the given kind in the rows handed to the Load stage.
CellValues(kind) ==
    UNION {{r.val[c].val : c \in {d \in Range(EXPECTED_COLUMNS) : r.val[d].kind = kind}} :
             r \in LoadRows}

\* pd.read_csv on one field: an empty field is a missing value, the text of
\* a number is that number, any other text is a string.
ReadCsvField(text) ==
    CASE text = "" -> NaN
      [] \E n \in CellValues("int") : ToString(n) = text ->
            PyInt(CHOOSE n \in CellValues("int") : ToString(n) = text)
      [] \E t \in CellValues("float") : DecimalText(t) = text ->
            PyFloat(CHOOSE t \in CellValues("float") : DecimalText(t) = text)
      [] OTHER -> PyStr(text)

\* Whether the value read back is the value handed over: null for null, a
\* number of the same value for a number, the same string for a string.
SameField(read, handed) ==
    IF IsNull(handed) THEN IsNull(read) ELSE SameValue(read, handed)

\* The file that call k of load_to_csv wrote has not been written since.
LastWrite(k) == \A j \in CsvWrites : j > k => l_calls[j].ret # l_calls[k].ret

\* The fields of the rows read back from the table are those handed over.
TableReadsBack ==
    LET handed == RowsHanded(Returned("load_to_sqlite")) IN
    /\ Len(TableRows(db)) = Len(handed)
    /\ \A i \in DOMAIN handed : \A c \in Range(EXPECTED_COLUMNS) :
          SameField(TableRows(db)[i].cells[c], handed[i][c])

\* The fields of row i of the file of call k are those handed over.
CsvRowReadsBack(k, i) ==
    LET file == files[l_calls[k].ret.val] IN
    \A j \in DOMAIN file.header :
        SameField(ReadCsvField(file.lines[i][j]), l_calls[k].df.rows[i][file.header[j]])

\* C19: every row handed to the Load stage reads back from the CSV file it
\* was written to, and from weather_current, with the same value in each of
\* the 8 fields, a null field still null.
C19_RoundTrip ==
    /\ \A k \in CsvWrites : LastWrite(k) =>
          \A i \in DOMAIN l_calls[k].df.rows : CsvRowReadsBack(k, i)
    /\ TableReadsBack

(***************************************************************************)
(* run_pipeline.                                                           *)
(***************************************************************************)
\* The stage functions of a run, in the order of the pipeline.
StageOrder == <<"extract_all", "transform", "load_to_csv", "load_to_sqlite">>

\* The run left the files and the database as it found them.
NothingPersisted == files = p_before.files /\ db = p_before.db

\* The run returned without raising and without a persisted change.
EndedCleanly == p_pc = "done" /\ p_exc = "none" /\ NothingPersisted /\ l_calls = <<>>

\* C14: the stage functions a run calls are a prefix of extract_all,
\* transform, load_to_csv, load_to_sqlite (that order, each at most once);
\* extract_all is called only with cities, transform only with records,
\* the loads only with a non-empty frame; and a run with no cities (no
\* request is made), with no record (transform is not entered) or with an
\* empty frame calls nothing further and ends cleanly.
C14_StagesInOrder ==
    /\ Len(p_stages) <= Len(StageOrder)
    /\ \A k \in DOMAIN p_stages : p_stages[k] = StageOrder[k]
    /\ Len(p_stages) >= 1 => cities # <<>>
    /\ Len(p_stages) >= 2 => results # <<>>
    /\ Len(p_stages) >= 3 => (t_pc = "done" /\ ~IsEmpty(df))
    /\ (p_pc # "start" /\ cities = <<>>)
          => (p_stages = <<>> /\ EndedCleanly /\ pc = "idle" /\ history = <<>>)
    /\ (Len(p_stages) >= 1 /\ p_pc # "extracting" /\ results = <<>>)
          => (p_stages = <<"extract_all">> /\ EndedCleanly /\ t_pc = "idle")
    /\ (p_pc # "transforming" /\ t_pc = "done" /\ IsEmpty(df))
          => (p_stages = <<"extract_all", "transform">> /\ EndedCleanly)
    /\ (RunOver /\ p_exc = "none" /\ Len(p_stages) < Len(StageOrder))
          => (cities = <<>> \/ results = <<>> \/ IsEmpty(df))

C14_Witness ==
    /\ p_pc = "done"
    /\ p_stages = <<"extract_all", "transform">>
    /\ Len(results) = 2
    /\ IsEmpty(df)
    /\ Len(TableRows(db)) = 1
    /\ DOMAIN files # {}

\* C15: when a run is over, either every row of its frame is in its CSV
\* file and in weather_current, after the rows that were there, or the run
\* changed neither the files nor the rows of the table.
C15_BothOrNeither ==
    RunOver =>
       \/ /\ files = p_before.files
          /\ TableRows(db) = TableRows(p_before.db)
       \/ /\ t_pc = "done"
          /\ \E k \in CsvWrites : /\ l_calls[k].df = df
                                  /\ files[l_calls[k].ret.val] = ToCsv(df)
          /\ TableRows(db) = Inserted(TableRows(p_before.db), df)

(***************************************************************************)
(* Sequencing and termination of extract_all and fetch_weather.            *)
(***************************************************************************)
\* A call of fetch_weather is under way.
InFetch == pc \in {"request", "after_except", "returned"}

\* C21: the calls of fetch_weather are made one per city, in the order of
\* the list and one at a time: call i is for city i, a call begins only
\* when every earlier call is over, requests and sleeps belong to the call
\* under way, and extract_all reaches its return with one finished call
\* per city whatever the calls gave.
C21_OncePerCityInOrder ==
    /\ [](/\ idx = Len(fetched)
          /\ idx <= Len(cities)
          /\ \A i \in DOMAIN fetched : fetched[i] # None => fetched[i].city = cities[i]
          /\ InFetch => (idx < Len(cities) /\ (ret # None => ret.city = cities[idx + 1]))
          /\ pc = "done" => Len(fetched) = Len(cities))
    /\ [][/\ fetched' # fetched => (pc = "returned" /\ fetched' = Append(fetched, ret))
          /\ (pc' = "request" /\ attempt' = 1) => (pc = "loop" /\ ~InFetch)
          /\ Len(history') > Len(history) => (pc = "request" /\ idx' = idx)
          /\ Len(sleeps') > Len(sleeps) => (pc = "after_except" /\ idx' = idx)]_vars
    /\ <>(pc = "done" /\ Len(fetched) = Len(cities))

C21_Witness ==
    /\ pc = "request"
    /\ Len(cities) = 2
    /\ idx = 1
    /\ fetched = <<None>>
    /\ attempt = 2
    /\ Len(sleeps) = 1

\* C22: a call of fetch_weather has at every moment issued at most
\* max_retries requests, has issued at least one when it returns, and
\* always returns.
C22_BoundedRequestsAndTermination ==
    /\ [](/\ max_retries >= 1
          /\ Len(history) <= max_retries
          /\ attempt <= max_retries
          /\ pc = "returned" => Len(history) >= 1)
    /\ (pc = "request" ~> pc = "returned")

C22_Witness ==
    /\ pc = "returned"
    /\ max_retries = 2
    /\ Len(history) = 2
    /\ history[1].status = "HTTPError"
    /\ history[2].status = "OK"
    /\ ret # None

(***************************************************************************)
(* Errors of load_to_sqlite.                                               *)
(***************************************************************************)
\* The call that the step adds to the log raised.
CallRaised == Len(l_calls') = Len(l_calls) + 1 /\ l_calls'[Len(l_calls')].exc # "none"

\* C23: a call of load_to_sqlite whose frame holds a row without city or
\* without retrieval_timestamp raises sqlite3.Error to the caller, and a call
\* that raises leaves in weather_current exactly the rows that were there,
\* none of the rows of its frame.
C23_TableUnchangedOnError ==
    /\ [](\A k \in DOMAIN l_calls :
             NotNullViolated(l_calls[k].df) => l_calls[k].exc = "sqlite3.Error")
    /\ [][CallRaised => TableRows(db') = TableRows(db)]_vars

C23_Witness ==
    /\ Len(l_calls) = 2
    /\ l_calls[1].exc = "none"
    /\ Len(l_calls[1].df.rows) = 1
    /\ l_calls[2].exc = "sqlite3.Error"
    /\ Len(l_calls[2].df.rows) = 2
    /\ l_calls[2].df.rows[1]["city"] = PyStr("Paris")
    /\ l_calls[2].df.rows[2]["city"] = None
    /\ Len(TableRows(db)) = 1

(***************************************************************************)
(* Scheduled mode.                                                         *)
(***************************************************************************)
\* C24: run_scheduled makes a first run at once, and every run, whatever
\* its outcome, is followed by another run once the interval has elapsed.
C24_EveryRunIsFollowed ==
    \A n \in 0..(MaxRuns - 1) : (Len(s_runs) = n) ~> (Len(s_runs) = n + 1)

(***************************************************************************)
(* Logging.                                                                *)
(***************************************************************************)
\* C25: after any number of calls of setup_logging the weather_etl logger
\* has exactly the file handler and the console handler that the first call
\* installed, and no message is written twice to the same destination.
C25_ConfiguredOnce ==
    /\ g_calls = <<>> => g_handlers = <<>>
    /\ g_calls # <<>> =>
          g_handlers = <<FileHandler(g_calls[1].log_dir, g_calls[1].log_level),
                         ConsoleHandler(g_calls[1].log_level)>>
    /\ \A i, j \in DOMAIN g_out :
          i # j => ~(g_out[i].dest = g_out[j].dest /\ g_out[i].msg = g_out[j].msg)

C25_Witness ==
    /\ Len(g_calls) = 2
    /\ g_calls[1].log_dir # g_calls[2].log_dir
    /\ Len(g_handlers) = 2
    /\ g_dirs = LogDirs
    /\ \E i, j \in DOMAIN g_out :
          /\ g_out[i].after = 2 /\ g_out[j].after = 2
          /\ g_out[i].msg = g_out[j].msg
          /\ g_out[i].dest = "stdout"
          /\ g_out[j].dest = g_calls[1].log_dir \o "/weather_etl.log"

====
